---- MODULE Spec2Model ----
(***************************************************************************)
(* Model of validator.go: Validate walks the fields of a struct, parses    *)
(* each field's `validate` tag into a Constraints value and checks the     *)
(* field's value against it, accumulating ValidationErrors.                *)
(*                                                                         *)
(* Text is modelled as a sequence of one-character strings, so that        *)
(* strings.Split and strconv.Atoi are computed on the characters.  Error   *)
(* messages are sequences of text pieces; Go's string concatenation is the *)
(* concatenation of the pieces.                                            *)
(***************************************************************************)
EXTENDS Integers, Sequences, FiniteSets, TLC

VARIABLES v, pc, i, constraints, validationErrors, parsedErrors, result

vars == <<v, pc, i, constraints, validationErrors, parsedErrors, result>>

(***************************************************************************)
(* Bounds of the explored inputs.                                          *)
(***************************************************************************)
MaxFields == 2
MaxClauses == 2
MaxSliceLen == 2

(***************************************************************************)
(* Text helpers.                                                           *)
(***************************************************************************)
Digits == <<"0", "1", "2", "3", "4", "5", "6", "7", "8", "9">>

IsDigit(c) == \E d \in 1..10 : Digits[d] = c

DigitVal(c) == (CHOOSE d \in 1..10 : Digits[d] = c) - 1

RECURSIVE DigitsVal(_)
DigitsVal(s) ==
    IF s = <<>> THEN 0
    ELSE 10 * DigitsVal(SubSeq(s, 1, Len(s) - 1)) + DigitVal(s[Len(s)])

\* strconv.Atoi: an optional sign followed by at least one decimal digit.
\* On a syntax error Go returns (0, err).  The tokens explored are short, so
\* the range error of a value outside int is not reached.
Atoi(s) ==
    LET signed == s # <<>> /\ s[1] \in {"+", "-"}
        body == IF signed THEN Tail(s) ELSE s
    IN  IF body = <<>> \/ \E k \in 1..Len(body) : ~IsDigit(body[k])
        THEN [ok |-> FALSE, num |-> 0]
        ELSE [ok |-> TRUE,
              num |-> IF signed /\ s[1] = "-" THEN 0 - DigitsVal(body)
                      ELSE DigitsVal(body)]

\* strconv.Itoa for a non-negative index, as the sequence of its digits.
RECURSIVE Itoa(_)
Itoa(n) ==
    IF n < 10 THEN <<Digits[n + 1]>>
    ELSE Itoa(n \div 10) \o <<Digits[(n % 10) + 1]>>

\* strings.Split(s, sep) for a one-character separator: the pieces between
\* the separators, one more than there are separators (<<"">> for "").
RECURSIVE Split(_, _)
Split(s, sep) ==
    IF \A k \in 1..Len(s) : s[k] # sep THEN <<s>>
    ELSE LET k == CHOOSE k \in 1..Len(s) :
                      s[k] = sep /\ \A j \in 1..(k - 1) : s[j] # sep
         IN  <<SubSeq(s, 1, k - 1)>> \o Split(SubSeq(s, k + 1, Len(s)), sep)

\* strings.Join(res, ",") over messages that are sequences of pieces.
RECURSIVE Join(_, _)
Join(res, sep) ==
    IF res = <<>> THEN <<>>
    ELSE IF Len(res) = 1 THEN res[1]
    ELSE res[1] \o <<sep>> \o Join(Tail(res), sep)

(***************************************************************************)
(* The package's error values and the ValidationError type.                *)
(* A ValidationError carries its message (Err).  The fields `field`,       *)
(* `cons` and `phase` are history: the field name the emitting function    *)
(* was given, the constraint it was evaluating and whether the parser, the *)
(* checker or Validate itself emitted it.  No operator reads them to       *)
(* decide what the program does.                                           *)
(***************************************************************************)
ErrNotStruct == <<"wrong argument given, should be a struct">>

ErrInvalidValidatorSyntax == <<"invalid validator syntax">>

ErrValidateForUnexportedFields == <<"validation for unexported field is not allowed">>

ErrWrongLength == <<"wrong length">>

ValidationError(err, field, cons, phase) ==
    [Err |-> err, field |-> field, cons |-> cons, phase |-> phase]

FieldErr(fieldName, text) == <<"field: ">> \o fieldName \o <<text>>

\* ValidationErrors.Error(): the messages joined by ",".
Error(list) == Join([k \in 1..Len(list) |-> list[k].Err], ",")

(***************************************************************************)
(* Constraints and the parser.                                             *)
(***************************************************************************)
\* A nil []string.  strings.Split never returns an empty slice, so the empty
\* sequence stands for nil without ambiguity.
NilSlice == <<>>

NewConstraints == [len |-> -1, in |-> NilSlice, min |-> -1, max |-> -1]

ParseInt(s) ==
    LET r == Atoi(s)
    IN  IF ~r.ok THEN [ok |-> FALSE, val |-> 0] ELSE [ok |-> TRUE, val |-> r.num]

KeyMax == <<"m", "a", "x">>
KeyMin == <<"m", "i", "n">>
KeyLen == <<"l", "e", "n">>
KeyIn == <<"i", "n">>

\* ParseClause with the constraint reset to unset when its clause does not parse.
ParseClauseResetOnError(name, con, st) ==
    LET s == Split(con, ":")
        key == s[1]
        syntaxErr(k) ==
            Append(st.validationErrors,
                   ValidationError(ErrInvalidValidatorSyntax, name, k, "parse"))
    IN  IF key \notin {KeyMax, KeyMin, KeyLen, KeyIn} THEN st
        ELSE IF Len(s) < 2 THEN [st EXCEPT !.panic = TRUE]
        ELSE IF key = KeyMax THEN
            LET r == ParseInt(s[2])
            IN  IF ~r.ok THEN [st EXCEPT !.validationErrors = syntaxErr("max"),
                                         !.constraints.max = -1]
                ELSE [st EXCEPT !.constraints.max = r.val]
        ELSE IF key = KeyMin THEN
            LET r == ParseInt(s[2])
            IN  IF ~r.ok THEN [st EXCEPT !.validationErrors = syntaxErr("min"),
                                         !.constraints.min = -1]
                ELSE [st EXCEPT !.constraints.min = r.val]
        ELSE IF key = KeyLen THEN
            LET r == ParseInt(s[2])
            IN  IF ~r.ok THEN [st EXCEPT !.validationErrors = syntaxErr("len")]
                ELSE IF r.val < 0 THEN
                    [st EXCEPT !.validationErrors =
                        Append(st.validationErrors,
                               ValidationError(ErrWrongLength, name, "len", "parse"))]
                ELSE [st EXCEPT !.constraints.len = r.val]
        ELSE [st EXCEPT !.constraints.in = Split(s[2], ",")]

\* One iteration of the loop over the clauses: st is the loop's state
\* [panic, constraints, validationErrors].  s[1] of the code is s[2] here;
\* indexing it when the clause holds no ":" panics (index out of range).
ParseClause(name, con, st) ==
    LET s == Split(con, ":")
        key == s[1]
        syntaxErr(k) ==
            Append(st.validationErrors,
                   ValidationError(ErrInvalidValidatorSyntax, name, k, "parse"))
    IN  IF key \notin {KeyMax, KeyMin, KeyLen, KeyIn} THEN st
        ELSE IF Len(s) < 2 THEN [st EXCEPT !.panic = TRUE]
        ELSE IF key = KeyMax THEN
            LET r == ParseInt(s[2])
            IN  IF ~r.ok THEN [st EXCEPT !.validationErrors = syntaxErr("max")]
                ELSE [st EXCEPT !.constraints.max = r.val]
        ELSE IF key = KeyMin THEN
            LET r == ParseInt(s[2])
            IN  IF ~r.ok THEN [st EXCEPT !.validationErrors = syntaxErr("min")]
                ELSE [st EXCEPT !.constraints.min = r.val]
        ELSE IF key = KeyLen THEN
            LET r == ParseInt(s[2])
            IN  IF ~r.ok THEN [st EXCEPT !.validationErrors = syntaxErr("len")]
                ELSE IF r.val < 0 THEN
                    [st EXCEPT !.validationErrors =
                        Append(st.validationErrors,
                               ValidationError(ErrWrongLength, name, "len", "parse"))]
                ELSE [st EXCEPT !.constraints.len = r.val]
        ELSE [st EXCEPT !.constraints.in = Split(s[2], ",")]

RECURSIVE ParseClauses(_, _, _)
ParseClauses(name, cons, st) ==
    IF cons = <<>> \/ st.panic THEN st
    ELSE ParseClauses(name, Tail(cons), ParseClause(name, Head(cons), st))

\* ParseConstraints(f, validationErrors): f is the struct field, of which
\* the code reads the tag (and the model, for the history, the name).
ParseConstraints(f, errs) ==
    LET st0 == [panic |-> FALSE, constraints |-> NewConstraints,
                validationErrors |-> errs]
    IN  IF Len(f.Tag) # 0 THEN ParseClauses(f.Name, Split(f.Tag, ";"), st0)
        ELSE st0

(***************************************************************************)
(* Values as reflect sees them: a kind and, by kind, the text, the integer *)
(* or the elements.                                                        *)
(***************************************************************************)
StrVal(s) == [kind |-> "string", str |-> s, int |-> 0, elems |-> <<>>]
IntVal(n) == [kind |-> "int", str |-> <<>>, int |-> n, elems |-> <<>>]
SliceVal(es) == [kind |-> "slice", str |-> <<>>, int |-> 0, elems |-> es]
OtherVal(k) == [kind |-> k, str |-> <<>>, int |-> 0, elems |-> <<>>]

\* The type's name, in characters, for the kinds that are neither text nor int.
TypeName(kind) ==
    CASE kind = "bool" -> <<"b", "o", "o", "l">>
      [] kind = "float64" -> <<"f", "l", "o", "a", "t", "6", "4">>

\* reflect.Value.String(): the text of a string, and "<T Value>" for a value
\* of any other type T (it does not panic).
StringOf(val) ==
    IF val.kind = "string" THEN val.str
    ELSE <<"<">> \o TypeName(val.kind) \o <<" ", "V", "a", "l", "u", "e", ">">>

(***************************************************************************)
(* The checker.                                                            *)
(***************************************************************************)
\* checkStringConstraints with the min check moved before the max check.
checkStringConstraintsMinFirst(val, fieldName, c, errs) ==
    LET n == Len(StringOf(val))
        e1 == IF c.min # -1 /\ n < c.min
              THEN Append(errs, ValidationError(
                       FieldErr(fieldName, " err: length can't be less than min"),
                       fieldName, "min", "check"))
              ELSE errs
        e2 == IF c.max # -1 /\ n > c.max
              THEN Append(e1, ValidationError(
                       FieldErr(fieldName, " err: length can't be more than max"),
                       fieldName, "max", "check"))
              ELSE e1
        e3 == IF c.len # -1 /\ n # c.len
              THEN Append(e2, ValidationError(
                       FieldErr(fieldName, " err: length must be equal to len"),
                       fieldName, "len", "check"))
              ELSE e2
        find == \E k \in 1..Len(c.in) : StringOf(val) = c.in[k]
    IN  IF c.in # NilSlice /\ ~find
        THEN Append(e3, ValidationError(
                 FieldErr(fieldName, " err: value is not contained in the 'in'"),
                 fieldName, "in", "check"))
        ELSE e3

checkStringConstraints(val, fieldName, c, errs) ==
    LET n == Len(StringOf(val))
        e1 == IF c.max # -1 /\ n > c.max
              THEN Append(errs, ValidationError(
                       FieldErr(fieldName, " err: length can't be more than max"),
                       fieldName, "max", "check"))
              ELSE errs
        e2 == IF c.min # -1 /\ n < c.min
              THEN Append(e1, ValidationError(
                       FieldErr(fieldName, " err: length can't be less than min"),
                       fieldName, "min", "check"))
              ELSE e1
        e3 == IF c.len # -1 /\ n # c.len
              THEN Append(e2, ValidationError(
                       FieldErr(fieldName, " err: length must be equal to len"),
                       fieldName, "len", "check"))
              ELSE e2
        find == \E k \in 1..Len(c.in) : StringOf(val) = c.in[k]
    IN  IF c.in # NilSlice /\ ~find
        THEN Append(e3, ValidationError(
                 FieldErr(fieldName, " err: value is not contained in the 'in'"),
                 fieldName, "in", "check"))
        ELSE e3

\* The loop over constraints.in of checkIntConstraints: st is [find,
\* validationErrors].  A token that does not parse leaves num = 0, the
\* comparison with the value follows all the same, and a match breaks out.
RECURSIVE intInLoop(_, _, _, _)
intInLoop(val, fieldName, in, st) ==
    IF in = <<>> THEN st
    ELSE LET r == Atoi(Head(in))
             errs == IF ~r.ok
                     THEN Append(st.validationErrors, ValidationError(
                              ErrInvalidValidatorSyntax, fieldName, "in", "check"))
                     ELSE st.validationErrors
         IN  IF val.int = r.num
             THEN [find |-> TRUE, validationErrors |-> errs]
             ELSE intInLoop(val, fieldName, Tail(in),
                            [find |-> FALSE, validationErrors |-> errs])

checkIntConstraints(val, fieldName, c, errs) ==
    LET e1 == IF c.max # -1 /\ val.int > c.max
              THEN Append(errs, ValidationError(
                       FieldErr(fieldName, " err: value can't be more than max"),
                       fieldName, "max", "check"))
              ELSE errs
        e2 == IF c.min # -1 /\ val.int < c.min
              THEN Append(e1, ValidationError(
                       FieldErr(fieldName, " err: value can't be less than min"),
                       fieldName, "min", "check"))
              ELSE e1
        e3 == IF c.len # -1
              THEN Append(e2, ValidationError(
                       ErrInvalidValidatorSyntax, fieldName, "len", "check"))
              ELSE e2
    IN  IF c.in # NilSlice
        THEN LET st == intInLoop(val, fieldName, c.in,
                                 [find |-> FALSE, validationErrors |-> e3])
             IN  IF ~st.find
                 THEN Append(st.validationErrors, ValidationError(
                          FieldErr(fieldName, " err: value is not contained in the 'in'"),
                          fieldName, "in", "check"))
                 ELSE st.validationErrors
        ELSE e3

\* fieldName + " " + strconv.Itoa(i) + "th element", i counted from 0.
ElemName(fieldName, idx) == fieldName \o <<" ">> \o Itoa(idx) \o <<"th element">>

\* The loop of checkSliceConstraints from element k (counted from 1) on.
RECURSIVE sliceLoop(_, _, _, _, _)
sliceLoop(val, fieldName, c, errs, k) ==
    IF k > Len(val.elems) THEN errs
    ELSE LET el == val.elems[k]
             next == IF el.kind = "int"
                     THEN checkIntConstraints(el, ElemName(fieldName, k - 1), c, errs)
                     ELSE checkStringConstraints(el, ElemName(fieldName, k - 1), c, errs)
         IN  sliceLoop(val, fieldName, c, next, k + 1)

\* checkSliceConstraints returning at the first element that adds an error.
RECURSIVE sliceLoopStop(_, _, _, _, _)
sliceLoopStop(val, fieldName, c, errs, k) ==
    IF k > Len(val.elems) THEN errs
    ELSE LET el == val.elems[k]
             next == IF el.kind = "int"
                     THEN checkIntConstraints(el, ElemName(fieldName, k - 1), c, errs)
                     ELSE checkStringConstraints(el, ElemName(fieldName, k - 1), c, errs)
         IN  IF next # errs THEN next
             ELSE sliceLoopStop(val, fieldName, c, next, k + 1)

checkSliceConstraintsStopAtFailure(val, fieldName, c, errs) ==
    sliceLoopStop(val, fieldName, c, errs, 1)

checkSliceConstraints(val, fieldName, c, errs) ==
    sliceLoop(val, fieldName, c, errs, 1)

CheckConstraints(val, fieldName, c, errs) ==
    IF val.kind = "string" THEN checkStringConstraints(val, fieldName, c, errs)
    ELSE IF val.kind = "int" THEN checkIntConstraints(val, fieldName, c, errs)
    ELSE IF val.kind = "slice" THEN checkSliceConstraints(val, fieldName, c, errs)
    ELSE errs

(***************************************************************************)
(* The inputs explored.  A struct is the sequence of its fields, each with *)
(* its name, whether it is exported, its `validate` tag and its value.     *)
(***************************************************************************)
SeqsUpTo(S, lo, hi) == UNION {[1..k -> S] : k \in lo..hi}

Clause(key, value) == key \o <<":">> \o value

KeyFoo == <<"f", "o", "o">>

ClauseSet ==
    { Clause(KeyMax, <<"1">>), Clause(KeyMax, <<"-", "1">>), Clause(KeyMax, <<"a">>),
      KeyMax,
      Clause(KeyMin, <<"3">>), Clause(KeyMin, <<"-", "1">>), Clause(KeyMin, <<"a">>),
      Clause(KeyLen, <<"1">>), Clause(KeyLen, <<"-", "1">>),
      Clause(KeyIn, <<"a", ",", "0">>), Clause(KeyIn, <<"1", ",", "a">>),
      Clause(KeyFoo, <<"1">>), KeyFoo, <<>> }

\* The tags of one to MaxClauses clauses, joined by ";" (the empty tag is the
\* tag of one empty clause).
Tags == {Join(cs, ";") : cs \in SeqsUpTo(ClauseSet, 1, MaxClauses)}

Values ==
    {StrVal(s) : s \in {<<>>, <<"a">>, <<"a", "b">>}}
    \cup {IntVal(n) : n \in {-2, 0, 1, 2}}
    \cup {SliceVal(es) : es \in SeqsUpTo({IntVal(0), IntVal(2)}, 0, MaxSliceLen)}
    \cup {SliceVal(es) : es \in SeqsUpTo({StrVal(<<"a">>), StrVal(<<"a", "b">>)},
                                         1, MaxSliceLen)}
    \cup {SliceVal(es) : es \in SeqsUpTo({OtherVal("bool")}, 1, MaxSliceLen)}
    \cup {OtherVal("bool"), OtherVal("float64"), OtherVal("struct")}

Field(exported, tag, val) == [Exported |-> exported, Tag |-> tag, Val |-> val]

\* Every value under every tag, as the one exported field of a struct.
WideFields == {Field(TRUE, tag, val) : tag \in Tags, val \in Values}

\* The fields of the structs of several fields.
NarrowFields ==
    { Field(TRUE, <<>>, StrVal(<<"a">>)),
      Field(TRUE, Join(<<Clause(KeyMax, <<"1">>), Clause(KeyMin, <<"3">>)>>, ";"),
            StrVal(<<"a", "b">>)),
      Field(TRUE, Join(<<Clause(KeyMin, <<"a">>), Clause(KeyMax, <<"1">>)>>, ";"),
            IntVal(2)),
      Field(TRUE, Clause(KeyIn, <<"1", ",", "a">>), IntVal(2)),
      Field(TRUE, KeyMax, IntVal(0)),
      Field(TRUE, Clause(KeyMax, <<"1">>), SliceVal(<<IntVal(0), IntVal(2)>>)),
      Field(FALSE, Clause(KeyMax, <<"1">>), IntVal(2)),
      Field(FALSE, <<>>, IntVal(2)) }

\* The worked examples of the documentation.
ExampleFields ==
    LET minmax == <<"m", "i", "n", ":", "3", ";", "m", "a", "x", ":", "5">>
        in123 == <<"i", "n", ":", "1", ",", "2", ",", "3">>
    IN  { Field(TRUE, minmax, StrVal(<<"a", "b">>)),
          Field(TRUE, minmax, StrVal(<<"a", "b", "c", "d", "e", "f">>)),
          Field(TRUE, minmax, StrVal(<<"a", "b", "c">>)),
          Field(TRUE, in123, IntVal(5)),
          Field(TRUE, in123, IntVal(2)),
          Field(TRUE, <<"l", "e", "n", ":", "3">>, IntVal(7)),
          Field(TRUE, <<"m", "a", "x", ":", "1", "0">>,
                SliceVal(<<IntVal(5), IntVal(15), IntVal(3)>>)),
          Field(TRUE, <<"m", "a", "x", ":", "a", "b", "c">>, IntVal(7)) }

\* Field names are distinct in a Go struct: the k-th field is named "F<k>".
FieldName(k) == <<"F">> \o Itoa(k)

Struct(fs) ==
    [kind |-> "struct",
     fields |-> [k \in 1..Len(fs) |->
                    [Name |-> FieldName(k), Exported |-> fs[k].Exported,
                     Tag |-> fs[k].Tag, Val |-> fs[k].Val]]]

NonStruct(kind) == [kind |-> kind, fields |-> <<>>]

\* "nil" is the untyped nil interface; "ptr" a pointer to a struct.
NonStructKinds == {"nil", "ptr", "int", "string", "slice", "map"}

Inputs ==
    {NonStruct(k) : k \in NonStructKinds}
    \cup {Struct(<<f>>) : f \in WideFields \cup ExampleFields}
    \cup {Struct(fs) : fs \in SeqsUpTo(NarrowFields, 0, MaxFields)}

(***************************************************************************)
(* Validate, one step at a time.  i counts the fields from 1 (the code's   *)
(* i + 1).  parsedErrors is history: validationErrors as ParseConstraints  *)
(* returned it for the field checked last.                                 *)
(***************************************************************************)
Pending == [kind |-> "pending", err |-> <<>>, list |-> <<>>]
ReturnNil == [kind |-> "nil", err |-> <<>>, list |-> <<>>]
ReturnError(err) == [kind |-> "error", err |-> err, list |-> <<>>]
ReturnValidationErrors(list) == [kind |-> "ValidationErrors", err |-> <<>>, list |-> list]
Panic == [kind |-> "panic", err |-> <<>>, list |-> <<>>]

Init ==
    /\ v \in Inputs
    /\ pc = "start"
    /\ i = 1
    /\ constraints = NewConstraints
    /\ validationErrors = <<>>
    /\ parsedErrors = <<>>
    /\ result = Pending

\* reflect.TypeOf(v).Kind() == reflect.Struct: reflect.TypeOf(nil) is the nil
\* Type, and calling Kind on it panics (nil pointer dereference).
Enter ==
    /\ pc = "start"
    /\ IF v.kind = "nil" THEN pc' = "done" /\ result' = Panic
       ELSE IF v.kind # "struct" THEN pc' = "done" /\ result' = ReturnError(ErrNotStruct)
       ELSE pc' = "loop" /\ result' = result
    /\ UNCHANGED <<v, i, constraints, validationErrors, parsedErrors>>

\* The loop's test on the field: a tag on a field that is not exported.
LoopTest ==
    /\ pc = "loop"
    /\ i <= Len(v.fields)
    /\ LET f == v.fields[i]
       IN  IF ~f.Exported /\ Len(f.Tag) # 0
           THEN /\ pc' = "done"
                /\ result' = ReturnValidationErrors(
                       <<ValidationError(ErrValidateForUnexportedFields,
                                         f.Name, "none", "fatal")>>)
           ELSE /\ pc' = "parse"
                /\ result' = result
    /\ UNCHANGED <<v, i, constraints, validationErrors, parsedErrors>>

Parse ==
    /\ pc = "parse"
    /\ LET st == ParseConstraints(v.fields[i], validationErrors)
       IN  IF st.panic
           THEN /\ pc' = "done"
                /\ result' = Panic
                /\ UNCHANGED <<constraints, validationErrors, parsedErrors>>
           ELSE /\ pc' = "check"
                /\ constraints' = st.constraints
                /\ validationErrors' = st.validationErrors
                /\ parsedErrors' = st.validationErrors
                /\ result' = result
    /\ UNCHANGED <<v, i>>

Check ==
    /\ pc = "check"
    /\ validationErrors' =
           CheckConstraints(v.fields[i].Val, v.fields[i].Name, constraints,
                            validationErrors)
    /\ i' = i + 1
    /\ pc' = "loop"
    /\ UNCHANGED <<v, constraints, parsedErrors, result>>

Return ==
    /\ pc = "loop"
    /\ i > Len(v.fields)
    /\ pc' = "done"
    /\ result' = IF Len(validationErrors) = 0 THEN ReturnNil
                 ELSE ReturnValidationErrors(validationErrors)
    /\ UNCHANGED <<v, i, constraints, validationErrors, parsedErrors>>

Next == Enter \/ LoopTest \/ Parse \/ Check \/ Return

Spec == Init /\ [][Next]_vars

(***************************************************************************)
(* Vocabulary of the properties.                                           *)
(***************************************************************************)
Done == pc = "done"

\* The state right after CheckConstraints returned for field i - 1.
Checked == pc = "loop" /\ i > 1

Last == v.fields[i - 1]

\* What CheckConstraints appended for the field checked last.
Added == SubSeq(validationErrors, Len(parsedErrors) + 1, Len(validationErrors))

Count(list, P(_)) == Cardinality({k \in 1..Len(list) : P(list[k])})

IsPrefix(s, t) == Len(s) <= Len(t) /\ SubSeq(t, 1, Len(s)) = s

\* The position of the field an entry was emitted for.
FieldIndex(e) == CHOOSE k \in 1..Len(v.fields) : IsPrefix(v.fields[k].Name, e.field)

Rank(cons) ==
    CASE cons = "max" -> 1 [] cons = "min" -> 2 [] cons = "len" -> 3 [] cons = "in" -> 4

HasUnexportedTagged ==
    /\ v.kind = "struct"
    /\ \E k \in 1..Len(v.fields) : ~v.fields[k].Exported /\ v.fields[k].Tag # <<>>

\* The clauses of the tag of field f, each split at ":".
ClausesOf(f) ==
    LET cs == Split(f.Tag, ";") IN [k \in 1..Len(cs) |-> Split(cs[k], ":")]

\* The positions of the clauses of field f whose key is `key`.
WithKey(f, key) == {k \in 1..Len(ClausesOf(f)) : ClausesOf(f)[k][1] = key}

SetMax(S) == CHOOSE x \in S : \A y \in S : y <= x

(***************************************************************************)
(* The claims.                                                             *)
(***************************************************************************)

\* C1: for every input that is not a struct (nil included) Validate returns
\* ErrNotStruct alone, before any field is parsed or checked.
C1_NotStructReturnsErrNotStruct ==
    (Done /\ v.kind # "struct") =>
        /\ result = ReturnError(ErrNotStruct)
        /\ validationErrors = <<>>
        /\ i = 1

\* C2: whenever some unexported field carries a non-empty tag, Validate
\* returns the unexported-field error, whatever the other fields hold, and
\* the result holds no violation of an earlier field.  The error counts here
\* whether it is returned bare or as the only entry of a ValidationErrors.
C2_UnexportedAlwaysFatal ==
    (Done /\ HasUnexportedTagged) =>
        \/ result = ReturnError(ErrValidateForUnexportedFields)
        \/ /\ result.kind = "ValidationErrors"
           /\ Len(result.list) = 1
           /\ result.list[1].Err = ErrValidateForUnexportedFields

\* C3: a fatal error is returned as itself, never as an entry of a
\* ValidationErrors.
C3_FatalReturnedStandalone ==
    (Done /\ result.kind = "ValidationErrors") =>
        \A k \in 1..Len(result.list) :
            result.list[k].Err \notin {ErrNotStruct, ErrValidateForUnexportedFields}

\* C4: on an int field with an `in` constraint, each token that is no integer
\* adds exactly one invalid-syntax error and takes no part in the membership
\* test; "not contained" is emitted iff the value equals none of the tokens
\* that are integers.
C4_IntInSkipsUnparsable ==
    (Checked /\ Last.Val.kind = "int" /\ constraints.in # NilSlice) =>
        LET toks == constraints.in
            bad == {k \in 1..Len(toks) : ~Atoi(toks[k]).ok}
            nums == {Atoi(toks[k]).num : k \in (1..Len(toks)) \ bad}
            IsInSyntax(e) == e.cons = "in" /\ e.Err = ErrInvalidValidatorSyntax
            IsNotContained(e) ==
                e.Err = FieldErr(Last.Name, " err: value is not contained in the 'in'")
        IN  /\ Count(Added, IsInSyntax) = Cardinality(bad)
            /\ (Count(Added, IsNotContained) = 1) <=> (Last.Val.int \notin nums)
            /\ Count(Added, IsNotContained) <= 1

\* C5: after ParseConstraints, for k in {max, min}: if the last clause with
\* key k does not parse, constraint k is unset and each unparsable clause of
\* key k has emitted one invalid-syntax error; if it parses, constraint k
\* holds its value.
C5_LastClauseDecides ==
    (pc = "check") =>
        \A key \in {KeyMax, KeyMin} :
            LET f == v.fields[i]
                at == WithKey(f, key)
                name == IF key = KeyMax THEN "max" ELSE "min"
                got == IF key = KeyMax THEN constraints.max ELSE constraints.min
                fails == {k \in at : ~Atoi(ClausesOf(f)[k][2]).ok}
                IsSyntax(e) ==
                    /\ e.field = f.Name /\ e.phase = "parse" /\ e.cons = name
                    /\ e.Err = ErrInvalidValidatorSyntax
            IN  (f.Tag # <<>> /\ at # {}) =>
                    /\ Count(validationErrors, IsSyntax) = Cardinality(fails)
                    /\ IF SetMax(at) \in fails THEN got = -1
                       ELSE got = Atoi(ClausesOf(f)[SetMax(at)][2]).num

\* C5 as amended: after ParseConstraints, for k in {max, min}: each clause of
\* key k that does not parse has emitted one invalid-syntax error; constraint
\* k holds the value of the last clause of key k that parses, whatever
\* follows it, and is unset when no clause of key k parses.
C5_LastParsedClauseDecides ==
    (pc = "check") =>
        \A key \in {KeyMax, KeyMin} :
            LET f == v.fields[i]
                at == IF f.Tag = <<>> THEN {} ELSE WithKey(f, key)
                name == IF key = KeyMax THEN "max" ELSE "min"
                got == IF key = KeyMax THEN constraints.max ELSE constraints.min
                fails == {k \in at : ~Atoi(ClausesOf(f)[k][2]).ok}
                IsSyntax(e) ==
                    /\ e.field = f.Name /\ e.phase = "parse" /\ e.cons = name
                    /\ e.Err = ErrInvalidValidatorSyntax
            IN  /\ Count(validationErrors, IsSyntax) = Cardinality(fails)
                /\ IF at \ fails = {} THEN got = -1
                   ELSE got = Atoi(ClausesOf(f)[SetMax(at \ fails)][2]).num

\* A clause max:1 that parsed, followed by a clause max:a that did not.
C5_Witness ==
    /\ pc = "check"
    /\ v.fields[i].Tag = <<"m", "a", "x", ":", "1", ";", "m", "a", "x", ":", "a">>
    /\ constraints.max = 1
    /\ Len(validationErrors) = 1

\* C6: on an int field whose tag holds one clause max:m (min:m) and it parses,
\* for every m, negative ones and -1 included, one max (min) violation is
\* emitted iff the value is above (below) m; with no such clause, none is.
C6_IntBoundByPresence ==
    (Checked /\ Last.Val.kind = "int") =>
        \A key \in {KeyMax, KeyMin} :
            LET at == IF Last.Tag = <<>> THEN {} ELSE WithKey(Last, key)
                name == IF key = KeyMax THEN "max" ELSE "min"
                IsBound(e) == e.phase = "check" /\ e.cons = name
            IN  /\ at = {} => Count(Added, IsBound) = 0
                /\ (Cardinality(at) = 1 /\ Atoi(ClausesOf(Last)[SetMax(at)][2]).ok) =>
                       LET m == Atoi(ClausesOf(Last)[SetMax(at)][2]).num
                           out == IF key = KeyMax THEN Last.Val.int > m
                                  ELSE Last.Val.int < m
                       IN  Count(Added, IsBound) = IF out THEN 1 ELSE 0

\* The violations the single-value check yields for element k of field f,
\* under the label of the element.
SingleCheck(f, c, k) ==
    LET el == f.Val.elems[k]
        label == f.Name \o <<" ">> \o Itoa(k - 1) \o <<"th element">>
    IN  IF el.kind = "int" THEN checkIntConstraints(el, label, c, <<>>)
        ELSE checkStringConstraints(el, label, c, <<>>)

RECURSIVE ConcatChecks(_, _, _)
ConcatChecks(f, c, k) ==
    IF k > Len(f.Val.elems) THEN <<>>
    ELSE SingleCheck(f, c, k) \o ConcatChecks(f, c, k + 1)

IntOrTextSlice(val) ==
    /\ val.kind = "slice"
    /\ \A k \in 1..Len(val.elems) : val.elems[k].kind \in {"int", "string"}

MaxTenExample ==
    Struct(<<Field(TRUE, <<"m", "a", "x", ":", "1", "0">>,
                   SliceVal(<<IntVal(5), IntVal(15), IntVal(3)>>))>>)

\* C7: for a slice of ints or of strings, the violations of the field are the
\* concatenation, element by element in index order, of what the single-value
\* check yields for each element under the label "<name> <i>th element", i
\* counted from 0; rule "max:10" on [5, 15, 3] yields one violation, that of
\* index 1.
C7_SliceElementwise ==
    /\ (Checked /\ IntOrTextSlice(Last.Val)) =>
           validationErrors = parsedErrors \o ConcatChecks(Last, constraints, 1)
    /\ (Done /\ v = MaxTenExample) =>
           /\ result.kind = "ValidationErrors"
           /\ Len(result.list) = 1
           /\ result.list[1].Err =
                  <<"field: ", "F", "1", " ", "1", "th element",
                    " err: value can't be more than max">>

\* Two elements of one slice each added a violation, under their own labels.
C7_Witness ==
    /\ Checked /\ IntOrTextSlice(Last.Val)
    /\ \E a, b \in 1..Len(Added) :
           /\ a < b
           /\ Added[a].field = Last.Name \o <<" ", "0", "th element">>
           /\ Added[b].field = Last.Name \o <<" ", "1", "th element">>

\* The entries of a list are in field order, and the checker's entries of one
\* text or int field in the order max, min, len, in.
Ordered(list) ==
    \A a, b \in 1..Len(list) :
        a < b =>
            /\ FieldIndex(list[a]) <= FieldIndex(list[b])
            /\ ( /\ FieldIndex(list[a]) = FieldIndex(list[b])
                 /\ v.fields[FieldIndex(list[a])].Val.kind \in {"string", "int"}
                 /\ list[a].phase = "check" /\ list[b].phase = "check" )
               => Rank(list[a].cons) <= Rank(list[b].cons)

\* C8: a returned ValidationErrors lists the fields' violations in declaration
\* order and, within a text or int field, in the order max, min, len, in; its
\* text is the messages in that order, joined by ",".
C8_Ordering ==
    /\ Ordered(validationErrors)
    /\ (Done /\ result.kind = "ValidationErrors") =>
           /\ Ordered(result.list)
           /\ Split(Error(result.list), ",") =
                  [k \in 1..Len(result.list) |-> result.list[k].Err]

\* A returned list with the violations of two fields, one of them a text
\* field that failed both its max and its min.
C8_Witness ==
    /\ Done /\ result.kind = "ValidationErrors"
    /\ \E a, b \in 1..Len(result.list) :
           /\ a < b
           /\ FieldIndex(result.list[a]) < FieldIndex(result.list[b])
    /\ \E a, b \in 1..Len(result.list) :
           /\ a < b
           /\ FieldIndex(result.list[a]) = FieldIndex(result.list[b])
           /\ v.fields[FieldIndex(result.list[a])].Val.kind = "string"
           /\ result.list[a].cons = "max" /\ result.list[a].phase = "check"
           /\ result.list[b].cons = "min" /\ result.list[b].phase = "check"

\* A value of none of the kinds text, int, slice of ints, slice of text.
OtherKind(val) ==
    \/ val.kind \notin {"string", "int", "slice"}
    \/ /\ val.kind = "slice"
       /\ \E k \in 1..Len(val.elems) : val.elems[k].kind \notin {"int", "string"}

\* C9: for a field of any other kind (a slice of other elements included) the
\* checker adds nothing: the list after the check is the list before it.
C9_OtherKindSilentPass ==
    (Checked /\ OtherKind(Last.Val)) => validationErrors = parsedErrors

\* C10: whatever the tags hold, no clause aborts the call: Validate of a
\* struct always returns normally.
C10_NeverAborts ==
    v.kind = "struct" => result.kind # "panic"

====
